---- MODULE Spec2Model ----
(***************************************************************************)
(* A model of liteyuki/utils/data.py: the SQLite ORM adapter `Database`    *)
(* (auto_migrate, upsert, _flat, first, all, delete, convert_to_dict).     *)
(*                                                                         *)
(* Values.  Python values and SQLite values share one encoding, a tuple    *)
(* whose first element is a tag:                                           *)
(*   <<"none">>            None / NULL                                     *)
(*   <<"int", n>>          int / INTEGER                                   *)
(*   <<"float", n>>        float / REAL (<<"float", 0>> is 0.0)            *)
(*   <<"str", s>>          a str / TEXT without reserved prefix            *)
(*   <<"tok", T, s>>       the str "$ID:T:s" (a reference token)           *)
(*   <<"json", x>>         the str json.dumps(x) returns; x is a list or   *)
(*                         a dict value                                    *)
(*   <<"list", seq>>  <<"tuple", seq>>   list, tuple                       *)
(*   <<"dict", seq>>       dict, as the sequence of its <<key, value>>     *)
(*                         items in insertion order                        *)
(*   <<"model", C, seq>>   a LiteModel instance of class C, seq being the  *)
(*                         items of its __dict__                           *)
(* A column name or a dict key is <<prefix, name>>: the string prefix+name *)
(* where prefix is "" or one of FOREIGNID, LIST, DICT, JSON.  Following    *)
(* the class docstring, no field name and no key starts with a prefix.     *)
(***************************************************************************)
EXTENDS Integers, Sequences, FiniteSets, TLC

VARIABLES app, db, disk, last

vars == <<app, db, disk, last>>

(* ---------------------------------------------------------------- bounds *)

\* Largest rowid a table may hold; a call that would pass it is not taken.
MaxId == 2

(* ------------------------------------------------------ class attributes *)

FOREIGNID == "FOREIGNID"
JSON == "JSON"
LIST == "LIST"
DICT == "DICT"
ID == "$ID"

None == <<"none">>
PyInt(n) == <<"int", n>>
PyFloat(n) == <<"float", n>>
PyStr(s) == <<"str", s>>
PyList(s) == <<"list", s>>
PyTuple(s) == <<"tuple", s>>
PyDict(s) == <<"dict", s>>
PyModel(c, f) == <<"model", c, f>>

IsStr(v) == v[1] \in {"str", "tok", "json"}
IsLiteModel(v) == v[1] = "model"
IsList(v) == v[1] = "list"
IsDict(v) == v[1] = "dict"
\* BaseIterable = list | tuple | set | dict
IsBaseIterable(v) == v[1] \in {"list", "tuple", "set", "dict"}

Col(prefix, field) == <<prefix, field>>
IdCol == Col("", "id")

\* type_map.get(t, 'TEXT')
type_map(t) ==
    CASE t = "str" -> "TEXT"
      [] t = "int" -> "INTEGER"
      [] t = "float" -> "REAL"
      [] t = "bool" -> "INTEGER"
      [] t = "list" -> "TEXT"
      [] OTHER -> "TEXT"

\* DEFAULT_VALUE.get(type_, "")
DEFAULT_VALUE(type_) ==
    CASE type_ = "TEXT" -> PyStr("")
      [] type_ = "INTEGER" -> PyInt(0)
      [] type_ = "REAL" -> PyFloat(0)
      [] OTHER -> PyStr("")

(* ------------------------------------------------- declared field types *)

\* The model classes of the programs considered (each a LiteModel subclass).
ClassNames == {"User", "Child", "Key", "Parent", "Owner", "Item", "Bag", "Pair", "Node"}

\* isinstance(r_type, type(LiteModel)): the annotation is a model class.
IsModelClass(r_type) == r_type \in ClassNames

ListTypes == {"list[str]", "list[int]", "list[float]", "list[bool]", "list"}
DictTypes == {"dict[str,str]", "dict[str,int]", "dict[str,float]",
              "dict[str,bool]", "dict"}
\* isinstance(r_type, types.GenericAlias): a parameterized builtin container.
IsGenericAlias(r_type) ==
    r_type \in (ListTypes \cup DictTypes \cup {"list[Item]", "tuple[int,int]"})
               \ {"list", "dict"}

\* One pass of the loop over the annotations: the column name and type.
ModelColumn(field, r_type) ==
    IF IsModelClass(r_type) THEN <<Col(FOREIGNID, field), "TEXT">>
    ELSE IF r_type \in ListTypes THEN <<Col(LIST, field), "TEXT">>
    ELSE IF r_type \in DictTypes THEN <<Col(DICT, field), "TEXT">>
    ELSE IF IsGenericAlias(r_type) THEN <<Col(JSON, field), "TEXT">>
    ELSE <<Col("", field), type_map(r_type)>>

\* model_fields zipped with model_types, in annotation order.
ModelColumns(ann) == [i \in 1..Len(ann) |-> ModelColumn(ann[i][1], ann[i][2])]

AnnHas(ann, f) == \E i \in 1..Len(ann) : ann[i][1] = f
AnnGet(ann, f) == ann[CHOOSE i \in 1..Len(ann) : ann[i][1] = f][2]

(* ------------------------------------------------------------ the store *)

NoTable == [exists |-> FALSE, autoinc |-> FALSE, seq |-> 0, cols |-> <<>>, rows |-> {}]

EmptyStore == [t \in ClassNames |-> NoTable]

Range(s) == {s[i] : i \in 1..Len(s)}

ColNames(t) == [i \in 1..Len(t.cols) |-> t.cols[i][1]]

MaxOf(S) == IF S = {} THEN 0 ELSE CHOOSE m \in S : \A x \in S : x <= m

\* CREATE TABLE IF NOT EXISTS name (id <type> PRIMARY KEY [AUTOINCREMENT])
CreateTable(t, id_type, autoinc) ==
    IF t.exists THEN t
    ELSE [exists |-> TRUE, autoinc |-> autoinc, seq |-> 0,
          cols |-> << <<IdCol, id_type>> >>, rows |-> {}]

\* ALTER TABLE ADD COLUMN c type: the column is NULL in every row.
AlterAdd(t, c) ==
    [t EXCEPT !.cols = Append(@, c),
              !.rows = {[r EXCEPT !.vals = [n \in DOMAIN r.vals \cup {c[1]} |->
                                            IF n = c[1] THEN None ELSE r.vals[n]]]
                        : r \in t.rows}]

\* UpdateNull without the UPDATE: the added column stays NULL.
UpdateNullSkipped(t, name, value) == t

\* UPDATE t SET c = ? WHERE c IS NULL
UpdateNull(t, name, value) ==
    [t EXCEPT !.rows = {IF r.vals[name] = None
                        THEN [r EXCEPT !.vals[name] = value] ELSE r
                        : r \in t.rows}]

\* ALTER TABLE DROP COLUMN name
AlterDrop(t, name) ==
    [t EXCEPT !.cols = SelectSeq(@, LAMBDA c : c[1] # name),
              !.rows = {[r EXCEPT !.vals = [n \in DOMAIN r.vals \ {name} |-> r.vals[n]]]
                        : r \in t.rows}]

(* --------------------------------------------------------- auto_migrate *)

\* Lines 158-163: every model column absent from table_fields (the column
\* names read before the loop) is added and its NULLs are set to the default.
RECURSIVE AddLoop(_, _, _, _)
\* AddLoop looking the field up in table_fields by its bare name instead of
\* its column name.
AddLoopByFieldName(st, mc, table_fields, i) ==
    IF i > Len(mc) THEN st
    ELSE IF Col("", mc[i][1][2]) \notin Range(table_fields)
         THEN AddLoop([t |-> UpdateNull(AlterAdd(st.t, mc[i]), mc[i][1],
                                        DEFAULT_VALUE(mc[i][2])),
                       ddl |-> Append(st.ddl, <<"ADD", mc[i][1], mc[i][2]>>)],
                      mc, table_fields, i + 1)
         ELSE AddLoop(st, mc, table_fields, i + 1)

AddLoop(st, mc, table_fields, i) ==
    IF i > Len(mc) THEN st
    ELSE IF mc[i][1] \notin Range(table_fields)
         THEN AddLoop([t |-> UpdateNull(AlterAdd(st.t, mc[i]), mc[i][1],
                                        DEFAULT_VALUE(mc[i][2])),
                       ddl |-> Append(st.ddl, <<"ADD", mc[i][1], mc[i][2]>>)],
                      mc, table_fields, i + 1)
         ELSE AddLoop(st, mc, table_fields, i + 1)

\* Lines 166-169: every column of table_fields that is no model column and
\* is not id is dropped.
RECURSIVE DropLoop(_, _, _, _)
DropLoop(st, model_fields, table_fields, i) ==
    IF i > Len(table_fields) THEN st
    ELSE IF table_fields[i] \notin model_fields /\ table_fields[i] # IdCol
         THEN DropLoop([t |-> AlterDrop(st.t, table_fields[i]),
                        ddl |-> Append(st.ddl, <<"DROP", table_fields[i]>>)],
                       model_fields, table_fields, i + 1)
         ELSE DropLoop(st, model_fields, table_fields, i + 1)

\* The id column of a new table: the declared type of id when the class
\* annotates id, INTEGER AUTOINCREMENT otherwise.
DeclaresId(ann) == AnnHas(ann, "id") /\ AnnGet(ann, "id") # "None"

\* The body of the loop over the model classes (lines 121-169).
MigrateModel(t, model) ==
    LET created == IF DeclaresId(model.ann)
                   THEN CreateTable(t, type_map(AnnGet(model.ann, "id")), FALSE)
                   ELSE CreateTable(t, "INTEGER", TRUE)
        table_fields == ColNames(created)
        mc == ModelColumns(model.ann)
        added == AddLoop([t |-> created, ddl |-> <<>>], mc, table_fields, 1)
    IN  DropLoop(added, {mc[i][1] : i \in 1..Len(mc)}, table_fields, 1)

\* The loop over *args: the tables and the ALTER TABLE statements executed.
RECURSIVE MigrateAll(_, _, _)
MigrateAll(st, models, i) ==
    IF i > Len(models) THEN st
    ELSE LET m == MigrateModel(st.tables[models[i].name], models[i])
         IN  MigrateAll([tables |-> [st.tables EXCEPT ![models[i].name] = m.t],
                         ddl |-> st.ddl \o m.ddl],
                        models, i + 1)

(* ------------------------------------------------ SQLite value handling *)

\* str(n) for the row ids of the model, and its inverse where one exists.
Digits == <<"0", "1", "2", "3", "4", "5", "6", "7", "8", "9">>
IntText(n) == IF n \in 0..9 THEN Digits[n + 1] ELSE "many"
IsIntText(s) == \E n \in 0..9 : Digits[n + 1] = s
TextInt(s) == CHOOSE n \in 0..9 : Digits[n + 1] = s

\* Column affinity applied to a value stored in, or compared with, a column:
\* a TEXT column turns a number into its text, a numeric column turns the
\* text of a number into the number.
Affinity(type_, v) ==
    IF type_ = "TEXT" /\ v[1] = "int" THEN PyStr(IntText(v[2]))
    ELSE IF type_ \in {"INTEGER", "REAL"} /\ v[1] = "str" /\ IsIntText(v[2])
         THEN PyInt(TextInt(v[2]))
    ELSE v

IdType(t) == t.cols[1][2]

\* The rows of t selected by WHERE id = ? with parameter p.
RowsWhereId(t, p) ==
    {r \in t.rows : r.vals[IdCol] # None /\ r.vals[IdCol] = Affinity(IdType(t), p)}

\* INSERT OR REPLACE INTO t (key_list) VALUES (value_list): the table, the
\* rowid of the new row (cursor.lastrowid) and the error raised, if any.
InsertOrReplace(t, key_list, value_list) ==
    LET names == Range(ColNames(t))
        given(n) == value_list[CHOOSE i \in 1..Len(key_list) : key_list[i] = n]
        typeOf(n) == t.cols[CHOOSE i \in 1..Len(t.cols) : t.cols[i][1] = n][2]
        vals == [n \in names |-> IF n \in Range(key_list)
                                 THEN Affinity(typeOf(n), given(n)) ELSE None]
        idv == vals[IdCol]
        intKey == IdType(t) = "INTEGER"
        top == MaxOf({r.rowid : r \in t.rows})
        rowid == IF intKey /\ idv # None THEN idv[2]
                 ELSE IF t.autoinc THEN MaxOf({top, t.seq}) + 1
                 ELSE top + 1
        kept == {r \in t.rows : r.rowid # rowid /\ (idv = None \/ r.vals[IdCol] # idv)}
        row == [rowid |-> rowid,
                vals |-> IF intKey THEN [vals EXCEPT ![IdCol] = PyInt(rowid)] ELSE vals]
    IN  IF \E i \in 1..Len(key_list) : key_list[i] \notin names
        THEN [t |-> t, rowid |-> 0, err |-> "OperationalError"]
        ELSE IF intKey /\ idv # None /\ idv[1] # "int"
        THEN [t |-> t, rowid |-> 0, err |-> "IntegrityError"]
        ELSE [t |-> [t EXCEPT !.rows = kept \cup {row},
                              !.seq = IF t.autoinc THEN MaxOf({t.seq, rowid}) ELSE @],
              rowid |-> rowid, err |-> ""]

\* conn.commit(): what the connection holds becomes what the file holds.
Commit(c) == [c EXCEPT !.disk = c.db]

(* ------------------------------------------------------ upsert and _flat *)

\* f'{self.ID}:{name}:{id}'
Token(name, id) == <<"tok", name, IntText(id)>>

\* json.dumps of the list or dict _flat has built: a str.
JsonDumps(return_data) == <<"json", return_data>>

\* _detect_for_table
DetectForTable(tables, table_name) == tables[table_name].exists

\* A result is [c, v, err]: the connection state, the value produced and the
\* exception raised ("" for none).  Each step of a loop takes the result of
\* the call before it as a parameter.
RECURSIVE Upsert(_, _)
RECURSIVE UpsertLoop(_, _, _, _)
RECURSIVE Flat(_, _)
RECURSIVE FlatValue(_, _)
RECURSIVE FlatEntries(_, _, _, _)
RECURSIVE FlatList(_, _, _, _)

Raise(c, err) == [c |-> c, v |-> None, err |-> err]
Return(c, v) == [c |-> c, v |-> v, err |-> ""]

\* Lines 213-214: commit, then ids[0] for one model and the tuple of ids
\* otherwise.
UpsertReturn(r) ==
    IF r.err # "" THEN r
    ELSE Return(Commit(r.c),
                IF Len(r.v) = 1 THEN PyInt(r.v[1])
                ELSE PyTuple([i \in 1..Len(r.v) |-> PyInt(r.v[i])]))

\* upsert(*models)
Upsert(c, models) == UpsertReturn(UpsertLoop(c, models, 1, <<>>))

\* Lines 209-212: INSERT OR REPLACE of the flattened fields, and the rowid.
\* `log` keeps the rows written through this connection during the call.
InsertDone(c, table_name, w) ==
    IF w.err # "" THEN Raise(c, w.err)
    ELSE Return([c EXCEPT !.db[table_name] = w.t,
                          !.log = Append(@, <<table_name, w.rowid>>)],
                w.rowid)

InsertFlat(f, table_name) ==
    IF f.err # "" THEN f
    ELSE InsertDone(f.c, table_name,
                    InsertOrReplace(f.c.db[table_name],
                                    [i \in 1..Len(f.v) |-> f.v[i][1]],
                                    [i \in 1..Len(f.v) |-> f.v[i][2]]))

\* UpsertModel looking the table up after the fields are flattened.
UpsertModelLateCheck(c, model) ==
    IF ~DetectForTable(c.db, model[2])
    THEN Raise(FlatEntries(c, model[3], 1, <<>>).c, "ValueError")
    ELSE InsertFlat(FlatEntries(c, model[3], 1, <<>>), model[2])

\* The body of the loop over the models (lines 186-212): the table is
\* looked up, the items of model.__dict__ are flattened into key_list and
\* value_list, and the row is written.
UpsertModel(c, model) ==
    IF ~DetectForTable(c.db, model[2]) THEN Raise(c, "ValueError")
    ELSE InsertFlat(FlatEntries(c, model[3], 1, <<>>), model[2])

UpsertNext(r, models, i, ids) ==
    IF r.err # "" THEN r ELSE UpsertLoop(r.c, models, i + 1, Append(ids, r.v))

UpsertLoop(c, models, i, ids) ==
    IF i > Len(models) THEN Return(c, ids)
    ELSE UpsertNext(UpsertModel(c, models[i]), models, i, ids)

\* The prefix a value gives to its field or key (lines 193-206, 228-237).
ValuePrefix(value) ==
    IF IsLiteModel(value) THEN FOREIGNID
    ELSE IF IsList(value) THEN LIST
    ELSE IF IsDict(value) THEN DICT
    ELSE IF IsBaseIterable(value) THEN JSON
    ELSE ""

\* f'{self.ID}:{value.__class__.__name__}:{self.upsert(value)}'
TokenOf(r, value) == IF r.err # "" THEN r ELSE Return(r.c, Token(value[2], r.v[2]))

\* What is stored for one value (lines 193-207, 228-237 and 242-251 branch
\* alike): the token of a model after its own upsert, the JSON text of a
\* list, dict, tuple or set, the value itself otherwise.
FlatValue(c, value) ==
    IF IsLiteModel(value) THEN TokenOf(Upsert(c, <<value>>), value)
    ELSE IF IsBaseIterable(value) THEN Flat(c, value)
    ELSE Return(c, value)

EntriesNext(r, items, i, out) ==
    IF r.err # "" THEN r
    ELSE FlatEntries(r.c, items, i + 1,
                     Append(out, <<Col(ValuePrefix(items[i][2]), items[i][1][2]), r.v>>))

\* The loop over model.__dict__.items() (lines 192-207) and over
\* data.items() (lines 227-237): the <<prefixed name, stored value>> pairs.
FlatEntries(c, items, i, out) ==
    IF i > Len(items) THEN Return(c, out)
    ELSE EntriesNext(FlatValue(c, items[i][2]), items, i, out)

ListNext(r, elems, i, out) ==
    IF r.err # "" THEN r ELSE FlatList(r.c, elems, i + 1, Append(out, r.v))

\* The loop over the elements of a list, tuple or set (lines 241-251).
FlatList(c, elems, i, out) ==
    IF i > Len(elems) THEN Return(c, out)
    ELSE ListNext(FlatValue(c, elems[i]), elems, i, out)

\* Dumped giving '' for an empty list or dict.
DumpedBlankIfEmpty(r, kind) ==
    IF r.err # "" THEN r
    ELSE IF r.v = <<>> THEN Return(r.c, PyStr(""))
    ELSE Return(r.c, JsonDumps(<<kind, r.v>>))

\* return json.dumps(return_data)
Dumped(r, kind) == IF r.err # "" THEN r ELSE Return(r.c, JsonDumps(<<kind, r.v>>))

\* _flat(data): the JSON text of a dict or of a list, tuple or set.
Flat(c, data) ==
    IF IsDict(data) THEN Dumped(FlatEntries(c, data[2], 1, <<>>), "dict")
    ELSE IF data[1] \in {"list", "tuple", "set"}
    THEN Dumped(FlatList(c, data[2], 1, <<>>), "list")
    ELSE Raise(c, "ValueError")

(* ------------------------------------------------------ convert_to_dict *)

\* dict(row): the columns of a row, in table order, as dict items.
RowDict(t, r) == PyDict([i \in 1..Len(t.cols) |-> <<t.cols[i][1], r.vals[t.cols[i][1]]>>])

\* json.loads(v), after the replacement of '' by `empty`: the value, or the
\* exception raised for None and for text that is no JSON.
JsonLoads(v, empty) ==
    IF v = PyStr("") THEN [v |-> empty, err |-> ""]
    ELSE IF v[1] = "json" THEN [v |-> v[2], err |-> ""]
    ELSE IF IsStr(v) THEN [v |-> None, err |-> "JSONDecodeError"]
    ELSE [v |-> None, err |-> "TypeError"]

\* isinstance(v, str) and v.startswith(self.ID)
IsToken(v) == v[1] = "tok"

\* A call load(dict(row)) made while the same call is still running, on a
\* store that loading does not change, repeats itself without end: the
\* recursion never returns.  `stack` holds the rows whose load is running;
\* the source keeps no such set.
Diverges == "Diverges"

RECURSIVE Load(_, _, _)
RECURSIVE LoadDict(_, _, _, _, _)
RECURSIVE LoadList(_, _, _, _, _)
RECURSIVE LoadRef(_, _, _)

\* load(d): [v, err].
Load(tables, d, stack) ==
    IF IsDict(d) THEN LoadDict(tables, d[2], stack, 1, <<>>)
    ELSE IF d[1] \in {"list", "tuple", "set"} THEN LoadList(tables, d[2], stack, 1, <<>>)
    ELSE [v |-> d, err |-> ""]

\* LoadRef giving None, instead of recursing, for a row whose load is running.
LoadRefVisited(tables, v, stack) ==
    IF ~IsStr(v) THEN [v |-> None, err |-> "AttributeError"]
    ELSE IF ~IsToken(v) THEN [v |-> None, err |-> "IndexError"]
    ELSE IF ~tables[v[2]].exists THEN [v |-> None, err |-> "OperationalError"]
    ELSE LET t == tables[v[2]]
             found == RowsWhereId(t, PyStr(v[3]))
         IN  IF found = {} THEN [v |-> None, err |-> "TypeError"]
             ELSE LET r == CHOOSE x \in found : \A y \in found : x.rowid <= y.rowid
                  IN  IF <<v[2], r.rowid>> \in stack THEN [v |-> None, err |-> ""]
                      ELSE Load(tables, RowDict(t, r), stack \cup {<<v[2], r.rowid>>})

\* load(dict(cursor.execute('SELECT * FROM <name> WHERE id = ?', (<id>,)).fetchone()))
\* for the name and id that v.split(":", 2) gives.
LoadRef(tables, v, stack) ==
    IF ~IsStr(v) THEN [v |-> None, err |-> "AttributeError"]
    ELSE IF ~IsToken(v) THEN [v |-> None, err |-> "IndexError"]
    ELSE IF ~tables[v[2]].exists THEN [v |-> None, err |-> "OperationalError"]
    ELSE LET t == tables[v[2]]
             found == RowsWhereId(t, PyStr(v[3]))
         IN  IF found = {} THEN [v |-> None, err |-> "TypeError"]
             ELSE LET r == CHOOSE x \in found : \A y \in found : x.rowid <= y.rowid
                  IN  IF <<v[2], r.rowid>> \in stack THEN [v |-> None, err |-> Diverges]
                      ELSE Load(tables, RowDict(t, r), stack \cup {<<v[2], r.rowid>>})

\* The loop over d.items() (lines 347-362).
LoadDict(tables, items, stack, i, new_d) ==
    IF i > Len(items) THEN [v |-> PyDict(new_d), err |-> ""]
    ELSE LET k == items[i][1]
             v == items[i][2]
             stripped == Col("", k[2])
         IN  IF k[1] = FOREIGNID
             THEN LET r == LoadRef(tables, v, stack)
                  IN  IF r.err # "" THEN r
                      ELSE LoadDict(tables, items, stack, i + 1, Append(new_d, <<stripped, r.v>>))
             ELSE IF k[1] \in {LIST, DICT, JSON}
             THEN LET j == JsonLoads(v, IF k[1] = DICT THEN PyDict(<<>>) ELSE PyList(<<>>))
                      r == IF j.err # "" THEN j ELSE Load(tables, j.v, stack)
                  IN  IF r.err # "" THEN r
                      ELSE LoadDict(tables, items, stack, i + 1, Append(new_d, <<stripped, r.v>>))
             ELSE LoadDict(tables, items, stack, i + 1, Append(new_d, <<k, v>>))

\* The loop over the elements of a list (lines 365-369): a token is
\* resolved, a list or dict is loaded, and nothing is appended for any
\* other element.
LoadListElse(new_d, v) == new_d

LoadList(tables, elems, stack, i, new_d) ==
    IF i > Len(elems) THEN [v |-> PyList(new_d), err |-> ""]
    ELSE LET v == elems[i]
         IN  IF IsToken(v)
             THEN LET r == LoadRef(tables, v, stack)
                  IN  IF r.err # "" THEN r
                      ELSE LoadList(tables, elems, stack, i + 1, Append(new_d, r.v))
             ELSE IF IsBaseIterable(v)
             THEN LET r == Load(tables, v, stack)
                  IN  IF r.err # "" THEN r
                      ELSE LoadList(tables, elems, stack, i + 1, Append(new_d, r.v))
             ELSE LoadList(tables, elems, stack, i + 1, LoadListElse(new_d, v))

\* model(**self.convert_to_dict(dict(row))) for a row r of table name: the
\* record built from the loaded dict (pydantic's constructor is taken to
\* keep the values it is given).
LoadRow(tables, name, r) ==
    LET l == Load(tables, RowDict(tables[name], r), {<<name, r.rowid>>})
    IN  IF l.err # "" THEN l ELSE [v |-> PyModel(name, l.v[2]), err |-> ""]

(* --------------------------------------------------- first, all, delete *)

\* The rows a SELECT returns, in rowid order.
RECURSIVE SortRows(_)
SortRows(rows) ==
    IF rows = {} THEN <<>>
    ELSE LET r == CHOOSE x \in rows : \A y \in rows : x.rowid <= y.rowid
         IN  <<r>> \o SortRows(rows \ {r})

\* The condition of a query: <<"id = ?", p>>, or <<"all">> for none.
Matching(t, cond) == IF cond[1] = "all" THEN t.rows ELSE RowsWhereId(t, cond[2])

\* First returning None, whatever the default, where it has no row.
FirstWithoutDefault(tables, name, cond, default) ==
    IF ~DetectForTable(tables, name) THEN [v |-> None, err |-> ""]
    ELSE LET rows == SortRows(Matching(tables[name], cond))
         IN  IF rows # <<>> THEN LoadRow(tables, name, rows[1])
             ELSE [v |-> None, err |-> ""]

\* first(model, conditions, *args, default=default): [v, err].
First(tables, name, cond, default) ==
    IF ~DetectForTable(tables, name) THEN [v |-> default, err |-> ""]
    ELSE LET rows == SortRows(Matching(tables[name], cond))
         IN  IF rows # <<>> THEN LoadRow(tables, name, rows[1])
             ELSE [v |-> default, err |-> ""]

RECURSIVE LoadRows(_, _, _, _, _)
LoadRows(tables, name, rows, i, out) ==
    IF i > Len(rows) THEN [v |-> PyList(out), err |-> ""]
    ELSE LET l == LoadRow(tables, name, rows[i])
         IN  IF l.err # "" THEN l ELSE LoadRows(tables, name, rows, i + 1, Append(out, l.v))

\* all(model, conditions, *args, default=default): [v, err].
All(tables, name, cond, default) ==
    IF ~DetectForTable(tables, name) THEN [v |-> default, err |-> ""]
    ELSE LET rows == SortRows(Matching(tables[name], cond))
         IN  IF rows # <<>> THEN LoadRows(tables, name, rows, 1, <<>>)
             ELSE [v |-> default, err |-> ""]

\* delete(model, conditions, *args): the connection state afterwards.
Delete(c, name, cond) ==
    IF ~DetectForTable(c.db, name) THEN c
    ELSE Commit([c EXCEPT !.db[name].rows = @ \ Matching(c.db[name], cond)])

(* ------------------------------------------- the callers and their data *)

\* A model class is [name, ann]: its name and its __annotations__ as the
\* sequence of <<field, declared type>>.  An instance is
\* PyModel(name, items) with id first, as in a LiteModel's __dict__.

\* "user": User(id: int, name: str, tags: list[str]) and a later version of
\* the class that gains a field of every storage type.
UserV1 == [name |-> "User",
           ann |-> << <<"id", "int">>, <<"name", "str">>, <<"tags", "list[str]">> >>]
UserV2 == [name |-> "User",
           ann |-> UserV1.ann \o << <<"meta", "dict[str,str]">>, <<"nick", "str">>,
                                    <<"age", "int">>, <<"score", "float">> >>]

Named(k) == Col("", k)
Field(f, v) == <<Named(f), v>>

UserA == PyModel("User", <<Field("id", None), Field("name", PyStr("a")),
                           Field("tags", PyList(<<PyStr("x"), PyStr("y")>>))>>)
UserB == PyModel("User", <<Field("id", PyInt(1)), Field("name", PyStr("b")),
                           Field("tags", PyList(<<>>))>>)
UserC == PyModel("User", <<Field("id", None), Field("name", PyStr("c")),
                           Field("tags", PyList(<<PyStr("x")>>)),
                           Field("meta", PyDict(<< <<Named("k"), PyStr("v")>> >>)),
                           Field("nick", PyStr("n")), Field("age", PyInt(3)),
                           Field("score", PyFloat(2))>>)
UserD == PyModel("User", <<Field("id", PyInt(2)), Field("name", PyStr("d")),
                           Field("tags", PyList(<<>>)),
                           Field("meta", PyDict(<<>>)),
                           Field("nick", PyStr("")), Field("age", PyInt(0)),
                           Field("score", PyFloat(0))>>)

\* "family": Child(name: str) with a store-assigned id and Parent(child:
\* Child).  "keyed": Named(id: str, name: str) with a string key and
\* Owner(key: Key).
ChildDef == [name |-> "Child", ann |-> << <<"name", "str">> >>]
KeyDef == [name |-> "Key", ann |-> << <<"id", "str">>, <<"name", "str">> >>]
ParentDef == [name |-> "Parent", ann |-> << <<"child", "Child">> >>]
OwnerDef == [name |-> "Owner", ann |-> << <<"key", "Key">> >>]

ChildNew == PyModel("Child", <<Field("id", None), Field("name", PyStr("c"))>>)
ChildTwo == PyModel("Child", <<Field("id", PyInt(2)), Field("name", PyStr("d"))>>)
KeyK == PyModel("Key", <<Field("id", PyStr("k")), Field("name", PyStr("n"))>>)
ParentNew == PyModel("Parent", <<Field("id", None), Field("child", ChildNew)>>)
ParentTwo == PyModel("Parent", <<Field("id", PyInt(1)), Field("child", ChildTwo)>>)
OwnerK == PyModel("Owner", <<Field("id", PyInt(1)), Field("key", KeyK)>>)

\* "bag": Item(name: str) and Bag(items: list[Item]).  "pair": Pair(pair:
\* tuple[int, int]).
ItemDef == [name |-> "Item", ann |-> << <<"name", "str">> >>]
BagDef == [name |-> "Bag", ann |-> << <<"items", "list[Item]">> >>]
PairDef == [name |-> "Pair", ann |-> << <<"pair", "tuple[int,int]">> >>]

ItemOne == PyModel("Item", <<Field("id", PyInt(1)), Field("name", PyStr("i"))>>)
BagOne == PyModel("Bag", <<Field("id", PyInt(1)), Field("items", PyList(<<ItemOne>>))>>)
BagNone == PyModel("Bag", <<Field("id", PyInt(2)), Field("items", PyList(<<>>))>>)
PairNew == PyModel("Pair", <<Field("id", None),
                             Field("pair", PyTuple(<<PyInt(1), PyInt(2)>>))>>)
PairTwo == PyModel("Pair", <<Field("id", PyInt(2)),
                             Field("pair", PyTuple(<<PyInt(2), PyInt(1)>>))>>)

\* "node": Node(id: int, m: dict, peers: list), whose values hold Nodes.
NodeDef == [name |-> "Node",
            ann |-> << <<"id", "int">>, <<"m", "dict">>, <<"peers", "list">> >>]

Node(id, m, peers) ==
    PyModel("Node", <<Field("id", PyInt(id)), Field("m", PyDict(m)),
                      Field("peers", PyList(peers))>>)
NodeLeaf(id) == Node(id, <<>>, <<>>)
NodeChain == Node(2, << <<Named("p"), NodeLeaf(1)>> >>, <<>>)
NodePeer == Node(2, <<>>, <<NodeLeaf(1), PyList(<<PyStr("x")>>)>>)
NodeSelf == Node(1, << <<Named("s"), NodeLeaf(1)>> >>, <<>>)
NodeRing == Node(1, << <<Named("p"), Node(2, <<>>, <<NodeLeaf(1)>>)>> >>, <<>>)
NodeBoth == Node(1, << <<Named("a"), NodeLeaf(2)>>, <<Named("b"), NodeLeaf(1)>> >>, <<>>)

Apps == {"user", "family", "keyed", "bag", "pair", "node"}

\* The classes a caller declares, the argument lists it passes to
\* auto_migrate and to upsert, and the ids it queries by.
Models(a) ==
    CASE a = "user" -> {UserV1, UserV2}
      [] a = "family" -> {ChildDef, ParentDef}
      [] a = "keyed" -> {KeyDef, OwnerDef}
      [] a = "bag" -> {ItemDef, BagDef}
      [] a = "pair" -> {PairDef}
      [] a = "node" -> {NodeDef}

Tables(a) == {m.name : m \in Models(a)}

MigrateArgs(a) ==
    {<<m>> : m \in Models(a)}
    \cup (CASE a = "family" -> {<<ChildDef, ParentDef>>}
            [] a = "bag" -> {<<ItemDef, BagDef>>}
            [] OTHER -> {})

Instances(a) ==
    CASE a = "user" -> {UserA, UserB, UserC, UserD}
      [] a = "family" -> {ChildNew, ParentNew, ParentTwo}
      [] a = "keyed" -> {KeyK, OwnerK}
      [] a = "bag" -> {ItemOne, BagOne, BagNone}
      [] a = "pair" -> {PairNew, PairTwo}
      [] a = "node" -> {NodeLeaf(1), NodeLeaf(2), NodeChain, NodePeer, NodeSelf,
                        NodeRing, NodeBoth}

UpsertArgs(a) ==
    {<<m>> : m \in Instances(a)}
    \cup (CASE a = "family" -> {<<ChildNew, ParentNew>>, <<ParentNew, KeyK>>}
            [] a = "keyed" -> {<<KeyK, OwnerK>>}
            [] OTHER -> {})

Ids(a) ==
    {PyInt(i) : i \in 1..MaxId} \cup (IF a = "keyed" THEN {PyStr("k")} ELSE {})

Conditions(a) == {<<"id = ?", p>> : p \in Ids(a)}

\* The conditions all and delete are called with: no condition (all only)
\* or one id.
OneId(a) == IF a = "keyed" THEN PyStr("k") ELSE IF a = "node" THEN PyInt(2) ELSE PyInt(1)
AllConditions(a) == {<<"all">>, <<"id = ?", OneId(a)>>}
DeleteConditions(a) == {<<"id = ?", OneId(a)>>}

Defaults == {None, PyStr("default")}

(* -------------------------------------------------------------- actions *)

NoPrev == [op |-> "", arg |-> <<>>, ret |-> None, err |-> ""]

\* What the last call was: its operation, arguments, return value and
\* exception, the ALTER TABLE statements and row writes it executed, the
\* call before it where a claim speaks of two calls in a row, and the store
\* as it was when the call began.
Call(op, arg, ret, err, ddl, writes, prev) ==
    [op |-> op, arg |-> arg, ret |-> ret, err |-> err, ddl |-> ddl,
     writes |-> writes, prev |-> prev, before |-> [db |-> db, disk |-> disk]]

Brief(l) == [op |-> l.op, arg |-> l.arg, ret |-> l.ret, err |-> l.err]

Init ==
    /\ app \in Apps
    /\ db = EmptyStore
    /\ disk = EmptyStore
    /\ last = [op |-> "init", arg |-> <<>>, ret |-> None, err |-> "", ddl |-> <<>>,
               writes |-> <<>>, prev |-> NoPrev,
               before |-> [db |-> EmptyStore, disk |-> EmptyStore]]

RowidsWithin(tables) == \A n \in ClassNames : \A r \in tables[n].rows : r.rowid <= MaxId

\* auto_migrate(*args)
AutoMigrate ==
    \E models \in MigrateArgs(app) :
        LET st == MigrateAll([tables |-> db, ddl |-> <<>>], models, 1)
        IN  /\ db' = st.tables
            /\ disk' = st.tables
            /\ last' = Call("migrate", models, None, "", st.ddl, <<>>,
                            IF last.op = "migrate" THEN Brief(last) ELSE NoPrev)
            /\ UNCHANGED app

\* upsert(*models)
UpsertCall ==
    \E models \in UpsertArgs(app) :
        LET r == Upsert([db |-> db, disk |-> disk, log |-> <<>>], models)
        IN  /\ RowidsWithin(r.c.db)
            /\ db' = r.c.db
            /\ disk' = r.c.disk
            /\ last' = Call("upsert", models, IF r.err = "" THEN r.v ELSE None, r.err,
                            <<>>, r.c.log, NoPrev)
            /\ UNCHANGED app

\* first(model, "id = ?", p, default=default)
FirstCall ==
    \E name \in Tables(app), cond \in Conditions(app), default \in Defaults :
        LET r == First(db, name, cond, default)
        IN  /\ last' = Call("first", <<name, cond, default>>, r.v, r.err, <<>>, <<>>,
                            IF last.op = "upsert" THEN Brief(last) ELSE NoPrev)
            /\ UNCHANGED <<app, db, disk>>

\* all(model, default=default) and all(model, "id = ?", p, default=default)
AllCall ==
    \E name \in Tables(app), cond \in AllConditions(app), default \in Defaults :
        LET r == All(db, name, cond, default)
        IN  /\ last' = Call("all", <<name, cond, default>>, r.v, r.err, <<>>, <<>>, NoPrev)
            /\ UNCHANGED <<app, db, disk>>

\* delete(model, "id = ?", p)
DeleteCall ==
    \E name \in Tables(app), cond \in DeleteConditions(app) :
        LET c == Delete([db |-> db, disk |-> disk, log |-> <<>>], name, cond)
        IN  /\ db' = c.db
            /\ disk' = c.disk
            /\ last' = Call("delete", <<name, cond>>, None, "", <<>>, <<>>, NoPrev)
            /\ UNCHANGED app

Next == AutoMigrate \/ UpsertCall \/ FirstCall \/ AllCall \/ DeleteCall

Spec == Init /\ [][Next]_vars

(* ---------------------------------------------- vocabulary of the claims *)

HasKey(items, k) == \E i \in 1..Len(items) : items[i][1] = k
Get(items, k) == items[CHOOSE i \in 1..Len(items) : items[i][1] = k][2]

\* The row of table name whose rowid is n.
RowAt(tables, name, n) == CHOOSE r \in tables[name].rows : r.rowid = n
HasRowAt(tables, name, n) == \E r \in tables[name].rows : r.rowid = n

\* The last call was first(type(R), "id = ?", v) right after a successful
\* upsert(R) that returned v.
FirstAfterUpsert ==
    /\ last.op = "first"
    /\ last.prev.op = "upsert"
    /\ last.prev.err = ""
    /\ Len(last.prev.arg) = 1
    /\ last.arg[1] = last.prev.arg[1][2]
    /\ last.arg[2] = <<"id = ?", last.prev.ret>>

Upserted == last.prev.arg[1]

\* A loaded value equals the value that was upserted: field by field, a
\* nested record being read back as a record or as the dict of its fields,
\* and an identity that was unset being free.
RECURSIVE Same(_, _)
Same(o, l) ==
    IF IsLiteModel(o)
    THEN /\ l[1] \in {"dict", "model"}
         /\ LET li == IF l[1] = "dict" THEN l[2] ELSE l[3]
            IN  \A i \in 1..Len(o[3]) :
                    \/ o[3][i] = <<IdCol, None>>
                    \/ /\ HasKey(li, o[3][i][1])
                       /\ Same(o[3][i][2], Get(li, o[3][i][1]))
    ELSE IF o[1] \in {"list", "tuple"}
    THEN /\ l[1] \in {"list", "tuple"}
         /\ Len(l[2]) = Len(o[2])
         /\ \A i \in 1..Len(o[2]) : Same(o[2][i], l[2][i])
    ELSE IF IsDict(o)
    THEN /\ IsDict(l)
         /\ Len(l[2]) = Len(o[2])
         /\ \A i \in 1..Len(o[2]) :
                HasKey(l[2], o[2][i][1]) /\ Same(o[2][i][2], Get(l[2], o[2][i][1]))
    ELSE o = l

\* The classes of the rows an upsert of these values writes, in the order
\* of the writes: the records nested in a record before the record itself.
RECURSIVE WritesOf(_)
RECURSIVE WritesOfSeq(_, _)
WritesOf(v) ==
    IF IsLiteModel(v) THEN WritesOfSeq([i \in 1..Len(v[3]) |-> v[3][i][2]], 1) \o <<v[2]>>
    ELSE IF IsDict(v) THEN WritesOfSeq([i \in 1..Len(v[2]) |-> v[2][i][2]], 1)
    ELSE IF IsBaseIterable(v) THEN WritesOfSeq(v[2], 1)
    ELSE <<>>
WritesOfSeq(vs, i) == IF i > Len(vs) THEN <<>> ELSE WritesOf(vs[i]) \o WritesOfSeq(vs, i + 1)

\* The records among these values, nested ones included.
RECURSIVE RecordsIn(_)
RecordsIn(v) ==
    IF IsLiteModel(v)
    THEN {v} \cup UNION {RecordsIn(v[3][i][2]) : i \in 1..Len(v[3])}
    ELSE IF IsDict(v) THEN UNION {RecordsIn(v[2][i][2]) : i \in 1..Len(v[2])}
    ELSE IF IsBaseIterable(v) THEN UNION {RecordsIn(v[2][i]) : i \in 1..Len(v[2])}
    ELSE {}

\* A value conforms to a declared type; a record to a class definition.
ValueConforms(v, ty) ==
    CASE ty = "str" -> v[1] = "str"
      [] ty = "int" -> v[1] = "int"
      [] ty = "float" -> v[1] = "float"
      [] ty = "list" -> IsList(v)
      [] ty = "dict" -> IsDict(v)
      [] ty = "list[str]" -> IsList(v) /\ \A i \in 1..Len(v[2]) : v[2][i][1] = "str"
      [] ty = "dict[str,str]" -> IsDict(v) /\ \A i \in 1..Len(v[2]) : v[2][i][2][1] = "str"
      [] ty = "list[Item]" ->
            IsList(v) /\ \A i \in 1..Len(v[2]) : IsLiteModel(v[2][i]) /\ v[2][i][2] = "Item"
      [] ty = "tuple[int,int]" ->
            v[1] = "tuple" /\ Len(v[2]) = 2 /\ \A i \in 1..2 : v[2][i][1] = "int"
      [] OTHER -> IsLiteModel(v) /\ v[2] = ty

Conforms(m, d) ==
    /\ d.name = m[2]
    /\ \A i \in 1..Len(m[3]) : m[3][i][1] = IdCol \/ AnnHas(d.ann, m[3][i][1][2])
    /\ \A i \in 1..Len(d.ann) :
           /\ HasKey(m[3], Named(d.ann[i][1]))
           /\ d.ann[i][1] = "id" \/ ValueConforms(Get(m[3], Named(d.ann[i][1])), d.ann[i][2])

\* The table of record m has, besides id, the columns auto_migrate derives
\* from a definition d of the caller that m conforms to.
MigratedFor(tables, m, d) ==
    /\ Conforms(m, d)
    /\ tables[m[2]].exists
    /\ Range(ColNames(tables[m[2]])) =
           {IdCol} \cup {ModelColumns(d.ann)[i][1] : i \in 1..Len(d.ann)}

\* The reference tokens load follows from a row or from a parsed JSON value,
\* as <<class name, id text>>.
RECURSIVE RefsOf(_)
RefsOf(x) ==
    IF IsDict(x)
    THEN UNION {LET k == x[2][i][1]
                    v == x[2][i][2]
                IN  IF k[1] = FOREIGNID THEN (IF IsToken(v) THEN {<<v[2], v[3]>>} ELSE {})
                    ELSE IF k[1] \in {LIST, DICT, JSON} /\ v[1] = "json" THEN RefsOf(v[2])
                    ELSE {}
                : i \in 1..Len(x[2])}
    ELSE IF IsList(x)
    THEN UNION {IF IsToken(x[2][i]) THEN {<<x[2][i][2], x[2][i][3]>>}
                ELSE IF IsBaseIterable(x[2][i]) THEN RefsOf(x[2][i])
                ELSE {}
                : i \in 1..Len(x[2])}
    ELSE {}

\* The rows a token names: those of its class whose id, as text, is its id.
RowsNamed(tables, ref) ==
    IF ~tables[ref[1]].exists THEN {}
    ELSE {<<ref[1], r.rowid>> : r \in {x \in tables[ref[1]].rows :
                                        Affinity("TEXT", x.vals[IdCol]) = PyStr(ref[2])}}

\* The reference graph over rows <<class name, rowid>>.
Succ(tables, node) ==
    UNION {RowsNamed(tables, ref) :
           ref \in RefsOf(RowDict(tables[node[1]], RowAt(tables, node[1], node[2])))}

RECURSIVE Closure(_, _)
Closure(tables, S) ==
    LET n == S \cup UNION {Succ(tables, x) : x \in S}
    IN  IF n = S THEN S ELSE Closure(tables, n)

\* A cycle of references can be reached from the row.
Cyclic(tables, node) ==
    \E x \in Closure(tables, {node}) : x \in Closure(tables, Succ(tables, x))

\* Every token reachable from the row names a row.
Resolved(tables, node) ==
    \A x \in Closure(tables, {node}) :
        \A ref \in RefsOf(RowDict(tables[x[1]], RowAt(tables, x[1], x[2]))) :
            RowsNamed(tables, ref) # {}

\* The last call was first(...) and its condition selected the row `Hit`.
FirstHit ==
    /\ last.op = "first"
    /\ db[last.arg[1]].exists
    /\ Matching(db[last.arg[1]], last.arg[2]) # {}
Hit == <<last.arg[1], SortRows(Matching(db[last.arg[1]], last.arg[2]))[1].rowid>>

(* ----------------------------------------------------------- the claims *)

\* C4: a second auto_migrate with the same class definitions, directly
\* after the first, executes no ALTER TABLE (adds and drops no column) and
\* leaves every table, its columns and its rows as they were.
C4_MigrateIdempotent ==
    (last.op = "migrate" /\ last.prev.op = "migrate" /\ last.prev.arg = last.arg)
        => (last.ddl = <<>> /\ db = last.before.db /\ disk = last.before.disk)

\* The second of two equal migrations ran on a table that holds rows and
\* has columns besides id.
C4_Witness ==
    /\ last.op = "migrate" /\ last.prev.op = "migrate" /\ last.prev.arg = last.arg
    /\ \E i \in 1..Len(last.arg) :
           /\ db[last.arg[i].name].rows # {}
           /\ Len(db[last.arg[i].name].cols) > 1

ZeroOf(type_) ==
    CASE type_ = "TEXT" -> PyStr("")
      [] type_ = "INTEGER" -> PyInt(0)
      [] type_ = "REAL" -> PyFloat(0)

\* C5: auto_migrate keeps every row that existed; a row keeps its value in
\* every column that is still there, and holds in every column that was
\* added the explicit default of the column's type ('' for TEXT, 0 for
\* INTEGER, 0.0 for REAL), never NULL.
C5_AdditivePreserves ==
    last.op = "migrate" =>
        \A n \in ClassNames :
            last.before.db[n].exists =>
                /\ {r.rowid : r \in db[n].rows} = {r.rowid : r \in last.before.db[n].rows}
                /\ Cardinality(db[n].rows) = Cardinality(last.before.db[n].rows)
                /\ \A rb \in last.before.db[n].rows :
                       \A i \in 1..Len(db[n].cols) :
                           LET c == db[n].cols[i]
                               ra == RowAt(db, n, rb.rowid)
                           IN  IF c[1] \in DOMAIN rb.vals
                               THEN ra.vals[c[1]] = rb.vals[c[1]]
                               ELSE ra.vals[c[1]] = ZeroOf(c[2])

\* A migration added a TEXT, an INTEGER and a REAL column to a table that
\* held a row.
C5_Witness ==
    /\ last.op = "migrate"
    /\ \E i \in 1..Len(last.arg) : last.before.db[last.arg[i].name].rows # {}
    /\ \A type_ \in {"TEXT", "INTEGER", "REAL"} :
           \E i \in 1..Len(last.ddl) : last.ddl[i][1] = "ADD" /\ last.ddl[i][3] = type_

ReadOrDelete == last.op \in {"first", "all", "delete"}

\* C7: on a class whose table does not exist, first and all return the
\* caller's default and delete does nothing, none of them raising or
\* creating the table; on a table that exists, first and all return the
\* default when no row matches. A read never changes the store.
C7_MissingTable ==
    /\ (ReadOrDelete /\ ~last.before.db[last.arg[1]].exists) =>
           /\ last.err = ""
           /\ last.op # "delete" => last.ret = last.arg[3]
           /\ db = last.before.db /\ disk = last.before.disk
    /\ (last.op \in {"first", "all"} /\ last.before.db[last.arg[1]].exists
            /\ Matching(last.before.db[last.arg[1]], last.arg[2]) = {}) =>
           /\ last.err = ""
           /\ last.ret = last.arg[3]
    /\ last.op \in {"first", "all"} => (db = last.before.db /\ disk = last.before.disk)

\* first was called with a default other than None on a class whose table
\* does not exist, while another table of the caller holds rows.
C7_Witness ==
    /\ last.op = "first"
    /\ ~db[last.arg[1]].exists
    /\ last.arg[3] = PyStr("default")
    /\ \E n \in ClassNames : db[n].rows # {}

\* C1: after a successful upsert(R), first(type(R), "id = ?", v) with v the
\* value upsert returned gives a record whose fields equal those of R, nested
\* records, lists and dicts included.
C1_RoundTrip ==
    FirstAfterUpsert =>
        /\ last.err = ""
        /\ IsLiteModel(last.ret)
        /\ Same(Upserted, last.ret)

HasNested(m) == \E i \in 1..Len(m[3]) : IsLiteModel(m[3][i][2])

\* C2: for a record P upserted with a nested record C in field f, the row
\* of P holds in column FOREIGNIDf the token naming class C and the id of a
\* row of C's table (the id the store assigned, or the one C supplied, as
\* text), and reading P back puts in field f that row of C, loaded.
C2_ReferenceResolves ==
    (FirstAfterUpsert /\ HasNested(Upserted)) =>
        /\ last.err = ""
        /\ IsLiteModel(last.ret)
        /\ \A i \in 1..Len(Upserted[3]) :
               LET f == Upserted[3][i][1]
                   C == Upserted[3][i][2]
                   tok == RowAt(db, Upserted[2], last.prev.ret[2]).vals[Col(FOREIGNID, f[2])]
               IN  IsLiteModel(C) =>
                       /\ IsToken(tok)
                       /\ tok[2] = C[2]
                       /\ RowsNamed(db, <<tok[2], tok[3]>>) # {}
                       /\ \A x \in RowsNamed(db, <<tok[2], tok[3]>>) :
                              Get(last.ret[3], f) =
                                  Load(db, RowDict(db[x[1]], RowAt(db, x[1], x[2])), {}).v

\* The value upsert returned for the k-th of its arguments.
ReturnedFor(k) == IF Len(last.arg) = 1 THEN last.ret ELSE last.ret[2][k]

\* The part of C3 about the returned value: a successful upsert returns the
\* id of each record it wrote (one value for one record, a tuple in argument
\* order otherwise): the table of the record holds exactly one row whose id
\* column is that value, and that row carries the record's scalar fields.
ReturnsWrittenIds ==
    (last.op = "upsert" /\ last.err = "") =>
        \A k \in 1..Len(last.arg) :
            LET m == last.arg[k]
                hits == {r \in db[m[2]].rows : r.vals[IdCol] = ReturnedFor(k)}
            IN  /\ Cardinality(hits) = 1
                /\ \A r \in hits : \A i \in 1..Len(m[3]) :
                       (m[3][i][2][1] \in {"str", "int", "float"}
                            /\ m[3][i][1] \in DOMAIN r.vals)
                           => r.vals[m[3][i][1]] = m[3][i][2]

\* The part of C3 about replacement: a single record without nested records
\* whose id equals that of a row of its table replaces that row, the number
\* of rows staying the same.
ReplacesInPlace ==
    (last.op = "upsert" /\ last.err = "" /\ Len(last.arg) = 1
        /\ WritesOf(last.arg[1]) = <<last.arg[1][2]>>
        /\ Get(last.arg[1][3], IdCol) # None
        /\ RowsWhereId(last.before.db[last.arg[1][2]], Get(last.arg[1][3], IdCol)) # {})
        => Cardinality(db[last.arg[1][2]].rows)
               = Cardinality(last.before.db[last.arg[1][2]].rows)

\* C3: upsert returns the id of each row it wrote, so that first with
\* "id = ?" and the returned value finds the row, and a record whose id is
\* that of an existing row overwrites it without changing the row count.
C3_UpsertReturnsId == ReturnsWrittenIds /\ ReplacesInPlace

\* The classes among the records of an upsert, nested ones included, whose
\* table did not exist when the call began.
MissingTables ==
    {n \in Range(WritesOfSeq(last.arg, 1)) : ~last.before.db[n].exists}

\* The positions, in write order, of the rows of the arguments themselves;
\* the other positions are those of nested records.
TopPositions ==
    {Len(WritesOfSeq(SubSeq(last.arg, 1, k), 1)) : k \in 1..Len(last.arg)}

OneUpserted == last.op = "upsert" /\ last.err = "" /\ Len(last.arg) = 1
Written == RowAt(db, last.arg[1][2], last.ret[2])

\* C8 as stated: an empty list field is stored as '' in LIST<field>, an
\* empty dict field as '' in DICT<field>.
C8_EmptyStoredAsBlank ==
    OneUpserted =>
        \A i \in 1..Len(last.arg[1][3]) :
            LET f == last.arg[1][3][i]
            IN  /\ f[2] = PyList(<<>>) => Written.vals[Col(LIST, f[1][2])] = PyStr("")
                /\ f[2] = PyDict(<<>>) => Written.vals[Col(DICT, f[1][2])] = PyStr("")

EmptyTexts(empty) == {PyStr(""), <<"json", empty>>}

\* C8, as the code has it: an empty list field is stored as the JSON text
\* "[]" in LIST<field> and an empty dict field as "{}" in DICT<field>; a
\* LIST column holding "[]" or '' is read back as an empty list and a DICT
\* column holding "{}" or '' as an empty dict, never as None.
C8_EmptyStoredAsJson ==
    /\ OneUpserted =>
           \A i \in 1..Len(last.arg[1][3]) :
               LET f == last.arg[1][3][i]
               IN  /\ f[2] = PyList(<<>>) =>
                       Written.vals[Col(LIST, f[1][2])] = <<"json", PyList(<<>>)>>
                   /\ f[2] = PyDict(<<>>) =>
                       Written.vals[Col(DICT, f[1][2])] = <<"json", PyDict(<<>>)>>
    /\ (FirstHit /\ last.err = "") =>
           LET t == db[Hit[1]]
               r == RowAt(db, Hit[1], Hit[2])
           IN  \A i \in 1..Len(t.cols) :
                   LET c == t.cols[i][1]
                   IN  /\ (c[1] = LIST /\ r.vals[c] \in EmptyTexts(PyList(<<>>)))
                           => Get(last.ret[3], Named(c[2])) = PyList(<<>>)
                       /\ (c[1] = DICT /\ r.vals[c] \in EmptyTexts(PyDict(<<>>)))
                           => Get(last.ret[3], Named(c[2])) = PyDict(<<>>)

\* A record with an empty list and an empty dict was upserted and read back.
C8_Witness ==
    /\ FirstAfterUpsert
    /\ last.err = ""
    /\ IsLiteModel(last.ret)
    /\ \E i, j \in 1..Len(Upserted[3]) :
           /\ Upserted[3][i][2] = PyList(<<>>)
           /\ Upserted[3][j][2] = PyDict(<<>>)
           /\ Get(last.ret[3], Upserted[3][i][1]) = PyList(<<>>)
           /\ Get(last.ret[3], Upserted[3][j][1]) = PyDict(<<>>)

\* C9: for every record of an upsert, nested ones included, that conforms
\* to a definition whose table has been migrated, the column name upsert
\* derives from each field's value is the one auto_migrate derived from the
\* field's declared type, and the upsert does not fail on a column the
\* table does not have.
C9_ColumnNamesAgree ==
    last.op = "upsert" =>
        \/ \E m \in RecordsIn(PyList(last.arg)) :
               \A d \in Models(app) : ~MigratedFor(last.before.db, m, d)
        \/ /\ last.err # "OperationalError"
           /\ \A m \in RecordsIn(PyList(last.arg)) :
                  \A d \in {x \in Models(app) : Conforms(m, x)} :
                      \A i \in 1..Len(m[3]) :
                          LET f == m[3][i][1][2]
                          IN  AnnHas(d.ann, f) =>
                                  Col(ValuePrefix(m[3][i][2]), f)
                                      = ModelColumn(f, AnnGet(d.ann, f))[1]

====
